---- MODULE Spec2Model ----
(***************************************************************************)
(* Guitar Hero III texture utilities: unpack.py (signature scan, extract,  *)
(* index log) and repack.py (header validation, splice, repair log, batch  *)
(* driver).  Bytes are integers 0..255, byte strings are sequences; Python *)
(* offsets are 0-based, sequences here are 1-based.                        *)
(***************************************************************************)
EXTENDS Integers, Sequences, FiniteSets, TLC

VARIABLES
    dir,         \* the input directory: one record per container file and its *_extracted folder
    pc,          \* "extract" | "edit" | "batch" | "entries" | "finished" | "raised"
    idx,         \* position of the batch loops (enumerate(..., start=1))
    edits,       \* number of changes made to the extracted folders between the two programs
    data,        \* replace_dds_in_file: the working copy (bytearray)
    entries,     \* replace_dds_in_file: the (dds_name, offset_str) pairs parsed from the index
    i,           \* replace_dds_in_file: position of the entry loop
    repair_log,  \* replace_dds_in_file: the repair_log list
    spliced,     \* history: the ranges <<offset, length>> written by line 123 for this container
    processed,   \* history: position and outcome of each iteration of the entry loop so far
    last         \* history: what the latest iteration of the entry loop read and did

vars == <<dir, pc, idx, edits, data, entries, i, repair_log, spliced, processed, last>>

(***************************************************************************)
(* Bounds of the model.                                                    *)
(***************************************************************************)
MaxPieces == 2      \* a container is built from at most this many pieces
MaxEdits == 1       \* changes made to the extracted folders before repacking
MaxBatch == 2       \* containers in a batch directory

(***************************************************************************)
(* Program constants.                                                      *)
(***************************************************************************)
signature == <<68, 68, 83, 32>>      \* b'DDS '
HeaderLen == 128
MipOffset == 28
FourccStart == 84
FourccEnd == 88
NameWidth == 3

Min(a, b) == IF a < b THEN a ELSE b

\* Python slice s[a:b] for 0 <= a, 0 <= b (indices are clamped to the length).
Slice(s, a, b) ==
    LET hi == Min(b, Len(s))
    IN  IF a >= hi THEN <<>> ELSE SubSeq(s, a + 1, hi)

Zeros(n) == [k \in 1..n |-> 0]

(***************************************************************************)
(* Header inspection (repack.py).                                          *)
(***************************************************************************)
\* str.strip() removes these characters (the ASCII ones for which isspace() holds).
Whitespace == {9, 10, 11, 12, 13, 28, 29, 30, 31, 32}

\* bytes.decode('ascii', errors='ignore'): bytes above 127 are dropped.
RECURSIVE DecodeAscii(_)
DecodeAscii(b) ==
    IF b = <<>> THEN <<>>
    ELSE IF Head(b) > 127 THEN DecodeAscii(Tail(b))
    ELSE <<Head(b)>> \o DecodeAscii(Tail(b))

RECURSIVE LStrip(_)
LStrip(s) ==
    IF s # <<>> /\ Head(s) \in Whitespace THEN LStrip(Tail(s)) ELSE s

RECURSIVE RStrip(_)
RStrip(s) ==
    IF s # <<>> /\ s[Len(s)] \in Whitespace THEN RStrip(SubSeq(s, 1, Len(s) - 1)) ELSE s

Strip(s) == RStrip(LStrip(s))

\* A Python value that is either None or a str.
None == [isNone |-> TRUE, s |-> <<>>]
Str(s) == [isNone |-> FALSE, s |-> s]
\* Python truthiness of such a value: "not x" holds for None and for ''.
Falsy(x) == x.isNone \/ x.s = <<>>

get_dds_format(dds_bytes) ==
    IF Len(dds_bytes) < HeaderLen \/ Slice(dds_bytes, 0, 4) # signature
    THEN None
    ELSE Str(Strip(DecodeAscii(Slice(dds_bytes, FourccStart, FourccEnd))))

\* struct.unpack_from('<I', b, off)
UnpackLE32(b, off) ==
    b[off + 1] + 256 * b[off + 2] + 65536 * b[off + 3] + 16777216 * b[off + 4]

get_mipmap_count(dds_bytes) ==
    IF Len(dds_bytes) < HeaderLen \/ Slice(dds_bytes, 0, 4) # signature
    THEN 1
    ELSE LET mipmap_count == UnpackLE32(dds_bytes, MipOffset)
         IN  IF mipmap_count > 0 THEN mipmap_count ELSE 1

(***************************************************************************)
(* Signature scan (unpack.py).                                             *)
(***************************************************************************)
\* bytes.find(sub, start): the lowest index >= start where sub occurs, or -1.
Find(d, sub, start) ==
    LET c == {p \in start..(Len(d) - Len(sub)) : SubSeq(d, p + 1, p + Len(sub)) = sub}
    IN  IF c = {} THEN -1 ELSE CHOOSE p \in c : \A q \in c : p <= q

\* Mutant: the search resumes past a whole header instead of one byte further.
NextFindStartPastHeader(index) == index + HeaderLen

\* Line 15: the search resumes one byte past the previous match.
NextFindStart(index) == index + 1

RECURSIVE ScanFrom(_, _, _)
ScanFrom(d, index, offsets) ==
    IF index = -1 THEN offsets
    ELSE ScanFrom(d, Find(d, signature, NextFindStart(index)), Append(offsets, index))

Scan(d) == ScanFrom(d, Find(d, signature, 0), <<>>)

(***************************************************************************)
(* Text written to and parsed from the index.                              *)
(***************************************************************************)
DigitChar(n) ==
    CASE n = 0 -> "0" [] n = 1 -> "1" [] n = 2 -> "2" [] n = 3 -> "3" [] n = 4 -> "4"
      [] n = 5 -> "5" [] n = 6 -> "6" [] n = 7 -> "7" [] n = 8 -> "8" [] n = 9 -> "9"

\* The digits of n in the given base, most significant first.
RECURSIVE Digits(_, _)
Digits(n, base) ==
    IF n < base THEN <<n>> ELSE Append(Digits(n \div base, base), n % base)

RECURSIVE PadLeft(_, _)
PadLeft(ds, width) ==
    IF Len(ds) >= width THEN ds ELSE PadLeft(<<0>> \o ds, width)

RECURSIVE Chars(_)
Chars(ds) == IF ds = <<>> THEN "" ELSE DigitChar(Head(ds)) \o Chars(Tail(ds))

\* f'dds_{i+1:03}.dds' for the 0-based position i.
OutName(pos) == "dds_" \o Chars(PadLeft(Digits(pos + 1, 10), NameWidth)) \o ".dds"

\* f'{start}': the decimal numeral of the offset, as its digits.
OffsetText(start) == Digits(start, 10)

\* int(offset_str) of a numeral matched by (\d+).
RECURSIVE ParseInt(_)
ParseInt(ds) ==
    IF ds = <<>> THEN 0 ELSE 10 * ParseInt(SubSeq(ds, 1, Len(ds) - 1)) + ds[Len(ds)]

(***************************************************************************)
(* Extraction of one container (unpack.py, extract_dds_files_with_log).    *)
(***************************************************************************)
UNKNOWN == <<85, 78, 75, 78, 79, 87, 78>>      \* "UNKNOWN"

\* Lines 34-37: the format written to the index.
ExtractFourcc(dds_data) ==
    LET fourcc == Strip(DecodeAscii(Slice(dds_data, FourccStart, FourccEnd)))
    IN  IF fourcc = <<>> THEN UNKNOWN ELSE fourcc

\* Mutant: every region runs to the end of the container.
RegionEndOfFile(d, offsets, k) == Len(d)

\* Line 28: the end of the region that starts at offsets[k] (k is 1-based here).
RegionEnd(d, offsets, k) ==
    IF k + 1 <= Len(offsets) THEN offsets[k + 1] ELSE Len(d)

\* Line 29: dds_data = data[start:end].
RegionBytes(d, offsets, k) == Slice(d, offsets[k], RegionEnd(d, offsets, k))

NoFiles == [n \in {} |-> <<>>]

\* The files and the index blocks written for a container with at least one offset.
ExtractedFiles(d, offsets) ==
    [n \in {OutName(k - 1) : k \in 1..Len(offsets)} |->
        \* a later write to the same path replaces an earlier one
        RegionBytes(d, offsets,
            CHOOSE k \in 1..Len(offsets) :
                /\ OutName(k - 1) = n
                /\ \A j \in 1..Len(offsets) : OutName(j - 1) = n => j <= k)]

ExtractedBlocks(d, offsets) ==
    [k \in 1..Len(offsets) |->
        [name   |-> OutName(k - 1),
         offset |-> OffsetText(offsets[k]),
         format |-> ExtractFourcc(RegionBytes(d, offsets, k))]]

\* The folder record of a container file that has not been extracted yet.
Fresh(c) ==
    [container |-> c, present |-> TRUE, readable |-> TRUE, offsets |-> <<>>,
     hasIndex |-> FALSE, blocks |-> <<>>, files |-> NoFiles, pristine |-> TRUE,
     regenerated |-> FALSE,
     out |-> [written |-> FALSE, bytes |-> <<>>],
     rlog |-> [written |-> FALSE, lines |-> <<>>],
     status |-> "waiting"]

\* extract_dds_files_with_log: the output folder is created first (line 7); with no
\* signature the function returns before any index or file is written (lines 16-18).
extract_dds_files_with_log(folder) ==
    LET offsets == Scan(folder.container)
    IN  IF offsets = <<>> THEN folder
        ELSE [folder EXCEPT !.offsets = offsets,
                            !.hasIndex = TRUE,
                            !.blocks = ExtractedBlocks(folder.container, offsets),
                            !.files = ExtractedFiles(folder.container, offsets)]

(***************************************************************************)
(* Repacking one container (repack.py, replace_dds_in_file).               *)
(***************************************************************************)
\* Line 64: the (dds_name, offset_str) pairs that re.findall returns for the index.
ParseIndex(blocks) ==
    [k \in 1..Len(blocks) |-> [dds_name |-> blocks[k].name, offset_str |-> blocks[k].offset]]

\* regenerate_mipmaps: texconv is an external tool, taken to be installed.  rg is
\* what it did: "failed" (CalledProcessError, lines 38-40), "notfound" (no regenerated
\* file, lines 46-47) or "replaced" (os.replace puts the regenerated bytes rg.out over
\* the file, line 45).
regenerate_mipmaps(files, dds_name, mip_count, rg) ==
    IF mip_count <= 1 THEN files
    ELSE IF rg.kind = "replaced" THEN [files EXCEPT ![dds_name] = rg.out]
    ELSE files

\* Mutant: the size check forgets the offset.
ExceedsIgnoringOffset(offset, dds_data, d) == Len(dds_data) > Len(d)

\* Mutant: no size check.
NeverExceeds(offset, dds_data, d) == FALSE

\* Line 118: the size check.
ExceedsFileSize(offset, dds_data, d) == offset + Len(dds_data) > Len(d)

\* Mutant: the replacement is inserted at the offset instead of written over the range.
SpliceInsert(d, offset, dds_data) ==
    Slice(d, 0, offset) \o dds_data \o Slice(d, offset, Len(d))

\* Line 123: data[offset:offset + len(dds_data)] = dds_data (slice assignment).
Splice(d, offset, dds_data) ==
    Slice(d, 0, offset) \o dds_data \o Slice(d, offset + Len(dds_data), Len(d))

\* Line 87: the header inspected for an entry is read from the working copy.
ReadHeader(d, offset) == Slice(d, offset, offset + HeaderLen)

\* A line of the repair log.
Line(kind, dds_name, offset) == [kind |-> kind, name |-> dds_name, offset |-> offset]

\* Mutant: a format mismatch is not logged.
MismatchSilent(orig_format, new_format, dds_name, offset) == <<>>

\* Lines 110-116: a format mismatch is logged and the entry goes on to the size check.
MismatchLines(orig_format, new_format, dds_name, offset) ==
    IF orig_format # new_format THEN <<Line("mismatch", dds_name, offset)>> ELSE <<>>

\* Mutant: a missing replacement file ends the loop.
AfterEntryBreak(pos, outcome, n) == IF outcome = "missing" THEN n + 1 ELSE pos + 1

\* Lines 84, 92, 108, 122 and 77: every branch of the loop body goes on to the next
\* entry of the n entries.
AfterEntry(pos, outcome, n) == pos + 1

\* Line 104: the format check.
FormatUndetermined(orig_format, new_format) == Falsy(orig_format) \/ Falsy(new_format)

\* One iteration of the entry loop (lines 77-124) on working copy d and the folder's
\* files: what it read, what it logged, the new working copy and the files as the
\* collaborator left them.
EntryStep(d, files, entry, rg) ==
    LET offset == ParseInt(entry.offset_str)
        dds_name == entry.dds_name
        original_header == ReadHeader(d, offset)
        orig_format == get_dds_format(original_header)
        orig_mipmaps == get_mipmap_count(original_header)
        invoked == orig_mipmaps > 1
        files2 == IF invoked THEN regenerate_mipmaps(files, dds_name, orig_mipmaps, rg)
                  ELSE files
        base == [name |-> dds_name, offset |-> offset, exists |-> FALSE,
                 header |-> <<>>, orig_format |-> None, orig_mipmaps |-> 1,
                 invoked |-> FALSE, dds_data |-> <<>>, new_format |-> None,
                 outcome |-> "missing", lines |-> <<>>, data |-> d, files |-> files]
    IN  IF dds_name \notin DOMAIN files
        THEN [base EXCEPT !.lines = <<Line("missing", dds_name, offset)>>]
        ELSE IF Slice(original_header, 0, 4) # signature
        THEN [base EXCEPT !.exists = TRUE, !.header = original_header,
                          !.outcome = "noheader",
                          !.lines = <<Line("noheader", dds_name, offset)>>]
        ELSE LET dds_data == files2[dds_name]
                 new_format == get_dds_format(dds_data)
                 read == [base EXCEPT !.exists = TRUE, !.header = original_header,
                                      !.orig_format = orig_format,
                                      !.orig_mipmaps = orig_mipmaps,
                                      !.invoked = invoked, !.files = files2,
                                      !.dds_data = dds_data, !.new_format = new_format]
                 mismatch == MismatchLines(orig_format, new_format, dds_name, offset)
             IN  IF FormatUndetermined(orig_format, new_format)
                 THEN [read EXCEPT !.outcome = "undetermined",
                                   !.lines = <<Line("undetermined", dds_name, offset)>>]
                 ELSE IF ExceedsFileSize(offset, dds_data, d)
                 THEN [read EXCEPT !.outcome = "exceeds",
                                   !.lines = mismatch \o <<Line("exceeds", dds_name, offset)>>]
                 ELSE [read EXCEPT !.outcome = "spliced", !.lines = mismatch,
                                   !.data = Splice(d, offset, dds_data)]

(***************************************************************************)
(* Inputs: containers, replacement files, outputs of the collaborator.     *)
(***************************************************************************)
DXT1 == <<68, 88, 84, 49>>
DXT5 == <<68, 88, 84, 53>>
Blank == <<32, 32, 32, 32>>

PackLE32(n) == <<n % 256, (n \div 256) % 256, (n \div 65536) % 256, (n \div 16777216) % 256>>

\* A 128-byte resource header: magic, mipmap count at 28, format tag at 84.
HeaderBytes(fourcc, mip, fill) ==
    signature \o Zeros(MipOffset - 4) \o PackLE32(mip) \o Zeros(FourccStart - MipOffset - 4)
        \o fourcc \o [k \in 1..(HeaderLen - FourccEnd) |-> fill]

Pieces ==
    {HeaderBytes(DXT1, 0, 0), HeaderBytes(DXT1, 2, 0), HeaderBytes(Blank, 0, 0),
     signature, <<68>>}

RECURSIVE Containers(_)
Containers(n) ==
    IF n = 0 THEN {<<>>}
    ELSE Containers(n - 1) \cup {c \o p : c \in Containers(n - 1), p \in Pieces}

Replacements ==
    {HeaderBytes(DXT5, 0, 0), HeaderBytes(DXT5, 0, 0) \o Zeros(HeaderLen),
     HeaderBytes(DXT1, 0, 7), <<1, 2, 3, 4, 5>>}

RegenOutcomes ==
    {[kind |-> "failed", out |-> <<>>], [kind |-> "notfound", out |-> <<>>],
     [kind |-> "replaced", out |-> HeaderBytes(DXT1, 2, 9)],
     [kind |-> "replaced", out |-> HeaderBytes(DXT5, 2, 9) \o Zeros(4)]}

BatchContainers == {HeaderBytes(DXT1, 0, 0), <<68>>}

RECURSIVE Batches(_)
Batches(n) ==
    IF n = 0 THEN {<<>>}
    ELSE LET shorter == Batches(n - 1)
         IN  shorter \cup {Append(b, Fresh(c)) : b \in {x \in shorter : Len(x) = n - 1},
                                               c \in BatchContainers}

NoStep ==
    [name |-> "", offset |-> 0, exists |-> FALSE, header |-> <<>>, orig_format |-> None,
     orig_mipmaps |-> 1, invoked |-> FALSE, dds_data |-> <<>>, new_format |-> None,
     outcome |-> "none", lines |-> <<>>, data |-> <<>>, files |-> NoFiles]

NoLast == [valid |-> FALSE, folder |-> 0, pos |-> 0, before |-> <<>>, step |-> NoStep]

Locals ==
    /\ data = <<>>
    /\ entries = <<>>
    /\ i = 1
    /\ repair_log = <<>>
    /\ spliced = {}
    /\ processed = <<>>
    /\ last = NoLast

\* A directory holding one container file.
Init ==
    /\ dir \in {<<Fresh(c)>> : c \in Containers(MaxPieces)}
    /\ pc = "extract"
    /\ idx = 1
    /\ edits = 0
    /\ Locals

\* A directory holding several container files.
BatchInit ==
    /\ dir \in {b \in Batches(MaxBatch) : Len(b) >= 2}
    /\ pc = "extract"
    /\ idx = 1
    /\ edits = 0
    /\ Locals

(***************************************************************************)
(* unpack.py, batch_extract_dds: one iteration of its loop over the files. *)
(***************************************************************************)
ExtractFile ==
    /\ pc = "extract"
    /\ idx <= Len(dir)
    /\ dir' = [dir EXCEPT ![idx] = extract_dds_files_with_log(dir[idx])]
    /\ idx' = IF idx = Len(dir) THEN 1 ELSE idx + 1
    /\ pc' = IF idx = Len(dir) THEN "edit" ELSE "extract"
    /\ UNCHANGED <<edits, data, entries, i, repair_log, spliced, processed, last>>

(***************************************************************************)
(* Between the two programs the operator changes the extracted folders.    *)
(***************************************************************************)
Edit(k, folder) ==
    /\ pc = "edit"
    /\ edits < MaxEdits
    /\ edits' = edits + 1
    /\ dir' = [dir EXCEPT ![k] = folder]
    /\ UNCHANGED <<pc, idx, data, entries, i, repair_log, spliced, processed, last>>

\* An extracted file is overwritten with an edited texture.
ReplaceFile ==
    \E k \in 1..Len(dir) : \E n \in DOMAIN dir[k].files : \E r \in Replacements :
        Edit(k, [dir[k] EXCEPT !.files[n] = r, !.pristine = FALSE])

\* An extracted file is removed.
DeleteFile ==
    \E k \in 1..Len(dir) : \E n \in DOMAIN dir[k].files :
        Edit(k, [dir[k] EXCEPT
                    !.files = [m \in DOMAIN dir[k].files \ {n} |-> dir[k].files[m]],
                    !.pristine = FALSE])

\* The index is emptied by hand: no block is left for the pattern to match.
TruncateIndex ==
    \E k \in 1..Len(dir) :
        /\ dir[k].hasIndex
        /\ dir[k].blocks # <<>>
        /\ Edit(k, [dir[k] EXCEPT !.blocks = <<>>, !.pristine = FALSE])

\* The container file can no longer be opened for reading.
MakeUnreadable ==
    \E k \in 1..Len(dir) :
        /\ dir[k].readable
        /\ Edit(k, [dir[k] EXCEPT !.readable = FALSE])

\* The container file is moved away from the directory.
RemoveOriginal ==
    \E k \in 1..Len(dir) :
        /\ dir[k].present
        /\ Edit(k, [dir[k] EXCEPT !.present = FALSE])

(***************************************************************************)
(* repack.py, batch_repack_dds and replace_dds_in_file.                    *)
(***************************************************************************)
\* Lines 134-143: the folders are listed and the loop starts.
StartRepack ==
    /\ pc = "edit"
    /\ pc' = "batch"
    /\ idx' = 1
    /\ UNCHANGED <<dir, edits, data, entries, i, repair_log, spliced, processed, last>>

\* The batch loop goes on to the next folder; the current one ends with status st.
NextFolder(st) ==
    /\ dir' = [dir EXCEPT ![idx].status = st]
    /\ idx' = idx + 1
    /\ UNCHANGED <<pc, edits, data, entries, i, repair_log, spliced, processed, last>>

\* Lines 148-151: no original file for the folder.
SkipNoOriginal ==
    /\ pc = "batch"
    /\ idx <= Len(dir)
    /\ ~dir[idx].present
    /\ NextFolder("skipped")

\* Lines 57-60: the index file does not exist.
IndexMissing ==
    /\ pc = "batch"
    /\ idx <= Len(dir)
    /\ dir[idx].present
    /\ ~dir[idx].hasIndex
    /\ NextFolder("returned")

\* Lines 62-67: the index holds no entry.
NoEntries ==
    /\ pc = "batch"
    /\ idx <= Len(dir)
    /\ dir[idx].present
    /\ dir[idx].hasIndex
    /\ ParseIndex(dir[idx].blocks) = <<>>
    /\ NextFolder("returned")

\* Line 69: open(original_file, 'rb') raises; nothing in replace_dds_in_file or in
\* batch_repack_dds catches it, so the program ends.
OpenRaises ==
    /\ pc = "batch"
    /\ idx <= Len(dir)
    /\ dir[idx].present
    /\ dir[idx].hasIndex
    /\ ParseIndex(dir[idx].blocks) # <<>>
    /\ ~dir[idx].readable
    /\ pc' = "raised"
    /\ dir' = [dir EXCEPT ![idx].status = "raised"]
    /\ UNCHANGED <<idx, edits, data, entries, i, repair_log, spliced, processed, last>>

\* Lines 62-75: the index is parsed and the container is loaded into the working copy.
Load ==
    /\ pc = "batch"
    /\ idx <= Len(dir)
    /\ dir[idx].present
    /\ dir[idx].hasIndex
    /\ ParseIndex(dir[idx].blocks) # <<>>
    /\ dir[idx].readable
    /\ entries' = ParseIndex(dir[idx].blocks)
    /\ data' = dir[idx].container
    /\ i' = 1
    /\ repair_log' = <<>>
    /\ spliced' = {}
    /\ processed' = <<>>
    /\ last' = NoLast
    /\ pc' = "entries"
    /\ UNCHANGED <<dir, idx, edits>>

\* Lines 77-124: one iteration of the entry loop.
ProcessEntry ==
    /\ pc = "entries"
    /\ i <= Len(entries)
    /\ \E rg \in RegenOutcomes :
         LET step == EntryStep(data, dir[idx].files, entries[i], rg)
         IN  /\ data' = step.data
             /\ dir' = [dir EXCEPT ![idx].files = step.files,
                                   ![idx].regenerated = @ \/ step.files # dir[idx].files]
             /\ repair_log' = repair_log \o step.lines
             /\ spliced' = IF step.outcome = "spliced"
                           THEN spliced \cup {<<step.offset, Len(step.dds_data)>>}
                           ELSE spliced
             /\ processed' = Append(processed, [pos |-> i, outcome |-> step.outcome])
             /\ last' = [valid |-> TRUE, folder |-> idx, pos |-> i, before |-> data,
                         step |-> [step EXCEPT !.data = <<>>, !.files = NoFiles]]
             /\ i' = AfterEntry(i, step.outcome, Len(entries))
    /\ UNCHANGED <<pc, idx, edits, entries>>

\* Lines 125-131: the patched container and the repair log are written.
Finish ==
    /\ pc = "entries"
    /\ i > Len(entries)
    /\ dir' = [dir EXCEPT ![idx].out = [written |-> TRUE, bytes |-> data],
                          ![idx].rlog = [written |-> TRUE, lines |-> repair_log],
                          ![idx].status = "done"]
    /\ idx' = idx + 1
    /\ pc' = "batch"
    /\ UNCHANGED <<edits, data, entries, i, repair_log, spliced, processed, last>>

\* Line 156: the batch loop is over.
BatchDone ==
    /\ pc = "batch"
    /\ idx > Len(dir)
    /\ pc' = "finished"
    /\ UNCHANGED <<dir, idx, edits, data, entries, i, repair_log, spliced, processed, last>>

Next ==
    \/ ExtractFile
    \/ ReplaceFile
    \/ DeleteFile
    \/ TruncateIndex
    \/ MakeUnreadable
    \/ RemoveOriginal
    \/ StartRepack
    \/ SkipNoOriginal
    \/ IndexMissing
    \/ NoEntries
    \/ OpenRaises
    \/ Load
    \/ ProcessEntry
    \/ Finish
    \/ BatchDone

Spec == Init /\ [][Next]_vars

BatchSpec == BatchInit /\ [][Next]_vars

(***************************************************************************)
(* Properties.                                                             *)
(***************************************************************************)
Folders == 1..Len(dir)

\* The folders the extractor has just gone through, nothing changed in them since.
Extracted ==
    {k \in Folders : edits = 0 /\ (pc = "edit" \/ (pc = "extract" /\ k < idx))}

\* The positions (0-based) where the 4-byte marker occurs in d.
Occurrences(d) == {p \in 0..(Len(d) - 4) : \A j \in 1..4 : d[p + j] = signature[j]}

WellFormed(b) == Len(b) >= HeaderLen /\ \A j \in 1..4 : b[j] = signature[j]

\* The decimal numeral ds denotes n.
RECURSIVE Denotes(_, _)
Denotes(ds, n) ==
    /\ ds # <<>>
    /\ ds[Len(ds)] = n % 10
    /\ IF Len(ds) = 1 THEN n < 10 ELSE Denotes(SubSeq(ds, 1, Len(ds) - 1), n \div 10)

ExpectedName(k) ==
    CASE k = 1 -> "dds_001.dds" [] k = 2 -> "dds_002.dds" [] k = 3 -> "dds_003.dds"
      [] k = 4 -> "dds_004.dds" [] k = 5 -> "dds_005.dds" [] OTHER -> "?"

RECURSIVE Concat(_, _)
Concat(f, k) == IF k = 0 THEN <<>> ELSE Concat(f, k - 1) \o f[k]

\* C5: scan returns exactly one offset per occurrence of the marker "DDS ": as many
\* offsets as occurrences, strictly increasing, the marker at each of them; with no
\* occurrence the result is empty and nothing is extracted.
C5_ScanFindsEveryMarker ==
    \A k \in Extracted :
        LET d == dir[k].container
            offs == dir[k].offsets
            occ == Occurrences(d)
        IN  /\ Len(offs) = Cardinality(occ)
            /\ \A j \in 1..Len(offs) : offs[j] \in occ
            /\ \A j \in 1..(Len(offs) - 1) : offs[j] < offs[j + 1]
            /\ occ = {} =>
                   offs = <<>> /\ DOMAIN dir[k].files = {} /\ ~dir[k].hasIndex

\* Two markers four bytes apart have both been found.
C5_Witness ==
    \E k \in Extracted :
        /\ Len(dir[k].offsets) >= 2
        /\ dir[k].offsets[2] = dir[k].offsets[1] + 4

\* C7: with scanned offsets o_1 < ... < o_n extract writes exactly n files, file k
\* holding container[o_k : o_(k+1)] (to the end for the last), so that their
\* concatenation is container[o_1 : end]; file k is named dds_00k.dds, index entry k
\* is (name_k, o_k) in ascending offset order and no name stands for two offsets.
C7_ExtractRegions ==
    \A k \in Extracted :
            LET d == dir[k].container
                offs == dir[k].offsets
                n == Len(offs)
                name(j) == dir[k].blocks[j].name
                stop(j) == IF j < n THEN offs[j + 1] ELSE Len(d)
            IN  /\ Cardinality(DOMAIN dir[k].files) = n
                /\ Len(dir[k].blocks) = n
                /\ \A j \in 1..n :
                      /\ name(j) = ExpectedName(j)
                      /\ Denotes(dir[k].blocks[j].offset, offs[j])
                      /\ name(j) \in DOMAIN dir[k].files
                      /\ Len(dir[k].files[name(j)]) = stop(j) - offs[j]
                      /\ \A q \in 1..(stop(j) - offs[j]) :
                            dir[k].files[name(j)][q] = d[offs[j] + q]
                /\ \A j \in 1..n : \A m \in 1..n : j # m => name(j) # name(m)
                /\ n > 0 =>
                      Concat([j \in 1..n |-> dir[k].files[name(j)]], n)
                          = SubSeq(d, offs[1] + 1, Len(d))
                /\ d = HeaderBytes(DXT1, 0, 0) \o HeaderBytes(DXT1, 0, 0) =>
                      /\ offs = <<0, 128>>
                      /\ \A j \in 1..n : Len(dir[k].files[name(j)]) = 128

\* Two regions have been extracted, the second of them at offset 128.
C7_Witness ==
    \E k \in Extracted :
        /\ dir[k].offsets = <<0, 128>>
        /\ DOMAIN dir[k].files = {"dds_001.dds", "dds_002.dds"}

(***************************************************************************)
(* Properties of repack.                                                   *)
(***************************************************************************)
\* The replacement file of the latest entry, as it is on disk.
LastOnDisk == dir[last.folder].files[last.step.name]

LastOverflows ==
    /\ last.valid
    /\ last.step.exists
    /\ last.step.offset + Len(LastOnDisk) > Len(dir[last.folder].container)

CountKind(lines, kind) == Cardinality({k \in 1..Len(lines) : lines[k].kind = kind})

\* The repair log ends with the lines of the latest entry.
LastLinesAppended ==
    /\ Len(repair_log) >= Len(last.step.lines)
    /\ SubSeq(repair_log, Len(repair_log) - Len(last.step.lines) + 1, Len(repair_log))
          = last.step.lines

\* C1 as stated: extract followed by repack with unmodified replacement files gives
\* patched container bytes equal to the original container bytes.
C1_RoundTripAsStated ==
    \A k \in Folders :
        (dir[k].status = "done" /\ dir[k].pristine) => dir[k].out.bytes = dir[k].container

\* C1 amended: extract followed by repack with unmodified replacement files, none of
\* which the mipmap-regeneration collaborator has rewritten, keeps the working copy
\* equal to the original container after every entry, and the patched container that
\* is written equals the original container byte for byte.
C1_RoundTrip ==
    /\ \A k \in Folders :
          (dir[k].status = "done" /\ dir[k].pristine /\ ~dir[k].regenerated) =>
              dir[k].out.written /\ dir[k].out.bytes = dir[k].container
    /\ (pc = "entries" /\ dir[idx].pristine /\ ~dir[idx].regenerated) =>
          data = dir[idx].container

\* An unmodified folder of two regions has been repacked, both entries spliced.
C1_Witness ==
    \E k \in Folders :
        /\ dir[k].status = "done"
        /\ dir[k].pristine
        /\ ~dir[k].regenerated
        /\ Len(processed) = 2
        /\ \A j \in 1..2 : processed[j].outcome = "spliced"

\* C2 as stated: the header validated and compared for an entry is the header of the
\* original container at the entry's offset, whatever has been spliced before.
C2_HeaderFromOriginal ==
    (last.valid /\ last.step.exists) =>
        last.step.header =
            Slice(dir[last.folder].container, last.step.offset, last.step.offset + HeaderLen)

\* C3 as stated: an entry whose replacement does not fit is skipped, changes no byte
\* and appends an 'exceeds file size' line.
C3_OverflowAsStated ==
    LastOverflows =>
        /\ data = last.before
        /\ last.step.outcome = "exceeds"
        /\ CountKind(last.step.lines, "exceeds") = 1

\* C3 amended: an entry whose replacement satisfies offset + len(replacement) >
\* len(container) is always skipped and changes no byte of the working copy, and the
\* loop goes on to the next entry; the 'exceeds file size' line is appended exactly
\* when the entry gets as far as the size check (a header is found at its offset in
\* the working copy and both formats are non-empty), otherwise the line of the check
\* that skipped it is appended.
C3_OverflowSkipped ==
    LastOverflows =>
        /\ data = last.before
        /\ last.step.outcome \in {"noheader", "undetermined", "exceeds"}
        /\ CountKind(last.step.lines, last.step.outcome) = 1
        /\ last.step.outcome = "exceeds" <=>
              /\ WellFormed(last.step.header)
              /\ ~Falsy(last.step.orig_format)
              /\ ~Falsy(last.step.new_format)
        /\ LastLinesAppended
        /\ pc = "entries" => i = last.pos + 1

\* A replacement that does not fit, at an offset above 0, got its 'exceeds' line.
C3_Witness ==
    /\ LastOverflows
    /\ last.step.offset > 0
    /\ Len(LastOnDisk) <= Len(dir[last.folder].container)
    /\ last.step.outcome = "exceeds"

\* Both formats pass the check of line 104 and they differ.
LastMismatch ==
    /\ last.valid
    /\ last.step.exists
    /\ WellFormed(last.step.header)
    /\ ~Falsy(last.step.orig_format)
    /\ ~Falsy(last.step.new_format)
    /\ last.step.orig_format # last.step.new_format

\* The working copy holds the replacement of the latest entry at the entry's offset.
LastWritten ==
    /\ Len(data) >= last.step.offset + Len(last.step.dds_data)
    /\ \A q \in 1..Len(last.step.dds_data) :
          data[last.step.offset + q] = last.step.dds_data[q]

\* C4 as stated: an entry whose two format tags are determined and differ is spliced
\* and gets exactly one format-mismatch line.
C4_MismatchAsStated ==
    LastMismatch =>
        /\ last.step.outcome = "spliced"
        /\ CountKind(last.step.lines, "mismatch") = 1

\* C4 amended: an entry whose two format tags are determined (non-empty) and differ
\* gets exactly one format-mismatch line, and the mismatch does not block the splice:
\* the replacement is spliced if it fits (offset + len(replacement) <= len(container));
\* if it does not fit the entry is skipped by the size check, the working copy
\* unchanged.
C4_MismatchLoggedNotBlocking ==
    LastMismatch =>
        /\ CountKind(last.step.lines, "mismatch") = 1
        /\ last.step.lines[1].kind = "mismatch"
        /\ last.step.lines[1].name = last.step.name
        /\ LastLinesAppended
        /\ IF last.step.offset + Len(last.step.dds_data) <= Len(dir[last.folder].container)
           THEN last.step.outcome = "spliced" /\ LastWritten /\ Len(last.step.lines) = 1
           ELSE last.step.outcome = "exceeds" /\ data = last.before

\* A replacement of another format has been spliced and changed the working copy.
C4_Witness ==
    /\ LastMismatch
    /\ last.step.outcome = "spliced"
    /\ data # last.before

\* C8 as stated: an entry is skipped with 'could not determine format' only when the
\* original header or the replacement is not a well-formed header; a well-formed
\* header whose tag bytes trim to the empty string is not skipped at this step.
C8_EmptyTagIsDetermined ==
    (last.valid /\ last.step.outcome = "undetermined") =>
        ~WellFormed(last.step.header) \/ ~WellFormed(last.step.dds_data)

\* The position in the index of the entry named n.
EntryPos(n) == CHOOSE k \in 1..Len(entries) : entries[k].dds_name = n

Anomalies == {"missing", "noheader", "undetermined", "exceeds"}

\* C9: repack processes every index entry exactly once, in index order; no per-entry
\* anomaly (missing replacement, absent header, undetermined format, format mismatch,
\* size overflow) stops the loop; the repair log holds the anomaly lines in processing
\* order; after the last entry the patched container and the repair log are written,
\* the repair log also when it is empty.
C9_EveryEntryInOrder ==
    /\ pc = "entries" =>
          /\ i = Len(processed) + 1
          /\ i <= Len(entries) + 1
    /\ \A k \in 1..Len(processed) :
          /\ processed[k].pos = k
          /\ processed[k].outcome \in Anomalies =>
                \E j \in 1..Len(repair_log) :
                    /\ repair_log[j].kind = processed[k].outcome
                    /\ repair_log[j].name = entries[k].dds_name
    /\ \A a \in 1..Len(repair_log) : \A b \in 1..Len(repair_log) :
          a < b => EntryPos(repair_log[a].name) <= EntryPos(repair_log[b].name)
    /\ (last.valid /\ last.folder \in Folders /\ dir[last.folder].status = "done") =>
          /\ Len(processed) = Len(entries)
          /\ dir[last.folder].out = [written |-> TRUE, bytes |-> data]
          /\ dir[last.folder].rlog = [written |-> TRUE, lines |-> repair_log]
    /\ \A k \in Folders : dir[k].status = "done" =>
          dir[k].out.written /\ dir[k].rlog.written

\* A container has been written after a missing replacement was followed by a splice.
C9_Witness ==
    /\ last.valid
    /\ dir[last.folder].status = "done"
    /\ Len(processed) = 2
    /\ processed[1].outcome = "missing"
    /\ processed[2].outcome = "spliced"
    /\ Len(repair_log) = 1

\* Position p (1-based) lies in one of the ranges written so far.
InSpliced(p) == \E r \in spliced : r[1] < p /\ p <= r[1] + r[2]

\* C10: after any sequence of processed entries the working copy is as long as the
\* original container, and every position outside the ranges [offset, offset +
\* len(replacement)) of the entries spliced so far holds the original byte; the
\* patched container that is written has the original length.
C10_WorkingCopyInvariant ==
    /\ pc = "entries" =>
          /\ Len(data) = Len(dir[idx].container)
          /\ \A p \in 1..Len(data) : ~InSpliced(p) => data[p] = dir[idx].container[p]
    /\ \A k \in Folders : dir[k].status = "done" =>
          Len(dir[k].out.bytes) = Len(dir[k].container)

\* A replacement shorter than its region has been spliced: the working copy changed
\* and bytes after the replacement are outside every written range.
C10_Witness ==
    /\ pc = "entries"
    /\ data # dir[idx].container
    /\ \E r \in spliced : r[1] + r[2] < Len(data) /\ ~InSpliced(r[1] + r[2] + 1)

\* C6 as stated: in a batch, a failure while processing one container is confined to
\* it: when the program has ended, every container of the batch has been handled.
C6_BatchContinues ==
    pc \in {"finished", "raised"} => \A k \in Folders : dir[k].status # "waiting"

====
